---------------------------- MODULE Spec2Model ----------------------------
(***************************************************************************)
(* A model of mevcli (src/mevcli.h): the line editor, the escape/CSI       *)
(* recognizer, the command dispatcher and the history store.               *)
(*                                                                         *)
(* Bytes are integers (ASCII codes), C arrays are functions over 0..N-1.  *)
(* Every C function is an operator from a context record to a context     *)
(* record; the record's fields are the fields of mevcli_ctx_t plus `out`, *)
(* the bytes handed to cb_output_char during the current call, and        *)
(* `calls`, the cmdfn invocations made during the current call.           *)
(* One action per branch of mevcli_input_char / mevcli_process_esc_seq.   *)
(***************************************************************************)
EXTENDS Integers, Sequences, FiniteSets

(***************************************************************************)
(* Configuration (src/mevcli.h "Config:"), scaled down for model checking. *)
(***************************************************************************)
MEVCLI_MAX_LINE_LEN == 5

MEVCLI_MAX_ARGS == 1

MEVCLI_HISTORY_BUFLEN == 8

\* ((unsigned int)MEVCLI_HISTORY_BUFLEN/MEVCLI_MAX_LINE_LEN*3): an unsigned
\* int expression, which decides how the comparisons against it convert.
MEVCLI_HISTORY_MAX_STRS == (MEVCLI_HISTORY_BUFLEN \div MEVCLI_MAX_LINE_LEN) * 3

MEVCLI_BELL_CHAR == 7

\* Longest run of browse-ups followed by browse-downs that the run recorder
\* counts.
MaxBrowseRun == 3


(***************************************************************************)
(* Byte names.                                                             *)
(***************************************************************************)
NUL == 0
TAB == 9
LF  == 10
CR  == 13
ESC == 27
SP  == 32
DEL == 127
CTRL_A == 1
CTRL_E == 5
CTRL_K == 11
CTRL_U == 21
CTRL_W == 23

\* MEVCLI_PROMPT, "> "
MEVCLI_PROMPT == <<62, 32>>

\* The command table handed to mevcli_init: name, help, nargs.
\*   0: "A"   nargs -1        1: "aa"  nargs 1        2: "a"  nargs 0
\* (entry 2 differs from entry 0 only by case, so it is never the first
\* match.)
commands ==
  [ i \in 0..2 |->
      CASE i = 0 -> [name |-> <<65>>,     help |-> <<32, 42>>, nargs |-> -1]
        [] i = 1 -> [name |-> <<97, 97>>, help |-> <<32, 49>>, nargs |-> 1]
        [] i = 2 -> [name |-> <<97>>,     help |-> <<32, 48>>, nargs |-> 0] ]

num_commands == Cardinality(DOMAIN commands)

(***************************************************************************)
(* The environment.  A session is driven by one of three users, each       *)
(* feeding a bounded family of byte streams:                               *)
(*   "editor"  edits a line with every key the editor knows and submits   *)
(*             only blank lines;                                           *)
(*   "shell"   types commands with arguments at the end of the line and   *)
(*             submits them, MaxShellSubmits commands at most;             *)
(*   "browser" types one-letter-alphabet lines, submits them and walks    *)
(*             the history with the arrow keys;                            *)
(*   "reviser" does the same with shorter lines, and also cuts the line   *)
(*             back to its start.                                          *)
(***************************************************************************)
Users == {"editor", "shell", "browser", "reviser"}

MaxShellSubmits == 2

\* The browser types no line longer than this.
MaxBrowserLine == 4

\* The reviser types no line longer than this.
MaxReviserLine == 2

\* Printable bytes a user types while the escape recognizer is idle.
TypedBytes(u) == IF u \in {"browser", "reviser"} THEN {97} ELSE {97, SP}

\* Bytes with no action in mevcli_input_char: another control code, and a
\* byte with the top bit set.
OtherBytes == {2, 128}

\* Bytes that are no final byte of a recognised escape sequence.
UnknownEscBytes == {120, CR, DEL}

\* The value of a `char` holding byte b: plain char is signed on some
\* targets and unsigned on others.
CharValues(b) == IF b >= 128 THEN {b, b - 256} ELSE {b}

(***************************************************************************)
(* Output and ANSI cursor control                                          *)
(***************************************************************************)
mevcli_putch(c, ch) == [c EXCEPT !.out = Append(@, ch)]

\* str is the string without its terminator; the C function returns Len(str).
mevcli_putstr(c, str) == [c EXCEPT !.out = @ \o str]

mevcli_newl(c) == mevcli_putstr(c, <<CR, LF>>)

mevcli_prompt(c) ==
  [mevcli_putstr(c, MEVCLI_PROMPT) EXCEPT !.prompt_len = Len(MEVCLI_PROMPT)]

\* "\e[0K"
mevcli_ansi_eraseright(c) == mevcli_putstr(c, <<ESC, 91, 48, 75>>)

\* The first loop of mevcli_ansi_cursorpos: digits[numdig] = x % 10; x /= 10
\* for numdig = 0, 1, 2, leaving the loop early when x reaches 0.  Returns
\* the digits written and the final value of numdig (3 when the loop ran out).
RECURSIVE cursorpos_digits(_, _, _)
cursorpos_digits(x, numdig, digits) ==
  IF numdig >= 3 THEN [numdig |-> numdig, digits |-> digits]
  ELSE LET d == [digits EXCEPT ![numdig] = x % 10]
           x1 == x \div 10
       IN IF x1 = 0 THEN [numdig |-> numdig, digits |-> d]
          ELSE cursorpos_digits(x1, numdig + 1, d)

\* The second loop: putch('0' + digits[i]) for i = numdig down to 0.
RECURSIVE cursorpos_emit(_, _, _)
cursorpos_emit(c, digits, i) ==
  IF i < 0 THEN c
  ELSE cursorpos_emit(mevcli_putch(c, 48 + digits[i]), digits, i - 1)

\* stack is what the four bytes at digits[0..3] hold on entry: digits[3] lies
\* past the end of the array and is read when x + 1 has four digits.
mevcli_ansi_cursorpos_on(c, x, stack) ==
  IF x > 999 THEN c
  ELSE IF x = 0 THEN mevcli_putch(c, CR)
  ELSE LET r == cursorpos_digits(x + 1, 0, stack)
           c1 == mevcli_putstr(c, <<ESC, 91>>)
       IN mevcli_putch(cursorpos_emit(c1, r.digits, r.numdig), 71)

mevcli_ansi_cursorpos(c, x) ==
  mevcli_ansi_cursorpos_on(c, x, [i \in 0..3 |-> 0])


(***************************************************************************)
(* History management                                                      *)
(***************************************************************************)
\* strlen of the C string at buf[from..]; buf is terminated within its
\* domain wherever the code calls this.
RECURSIVE mevcli_strlen(_, _)
mevcli_strlen(buf, from) ==
  IF from \notin DOMAIN buf \/ buf[from] = NUL THEN 0
  ELSE 1 + mevcli_strlen(buf, from + 1)

\* The usual arithmetic conversion of an int compared against an unsigned
\* int: a negative value wraps (unsigned int is at least 16 bits wide).
ToUnsigned(x) == IF x < 0 THEN x + 65536 ELSE x

\* Lines 334-343: walk history_strlens from slot i; returns highest_copyable
\* and highest_copyable_starts_at.
RECURSIVE history_scan(_, _, _, _, _, _)
history_scan(lens, len, i, total_histlen, highest_copyable, starts_at) ==
  IF i >= MEVCLI_HISTORY_MAX_STRS \/ lens[i] = 0
  THEN [highest_copyable |-> highest_copyable, starts_at |-> starts_at]
  ELSE LET new_total_histlen == total_histlen + lens[i]
       IN IF (MEVCLI_HISTORY_BUFLEN - new_total_histlen) >= len
          THEN history_scan(lens, len, i + 1, new_total_histlen, i,
                            total_histlen)
          ELSE history_scan(lens, len, i + 1, new_total_histlen,
                            highest_copyable, starts_at)

\* Lines 356-358: history[start + len + j] = history[start + j] for
\* j = clen - 1 down to 0.
RECURSIVE history_copy_up(_, _, _, _)
history_copy_up(hist, start, len, j) ==
  IF j < 0 THEN hist
  ELSE history_copy_up([hist EXCEPT ![start + len + j] = hist[start + j]],
                       start, len, j - 1)

\* Lines 353-368: for i = highest_copyable down to 0, move slot i up by len
\* bytes and its length to slot i + 1.
RECURSIVE history_shift(_, _, _, _)
history_shift(c, len, i, start) ==
  IF i < 0 THEN c
  ELSE LET clen == c.history_strlens[i]
           hist == history_copy_up(c.history, start, len, clen - 1)
           start1 == IF i > 0 THEN start - c.history_strlens[i - 1] ELSE start
           lens == IF i < (MEVCLI_HISTORY_MAX_STRS - 1)
                   THEN [c.history_strlens EXCEPT ![i + 1] = clen]
                   ELSE c.history_strlens
       IN history_shift([c EXCEPT !.history = hist, !.history_strlens = lens],
                        len, i - 1, start1)

\* Lines 385-387: history[i] = last_cmd[i] for i < len, last_cmd = &line[from].
RECURSIVE history_copy_in(_, _, _, _, _)
history_copy_in(hist, buf, from, len, i) ==
  IF i >= len THEN hist
  ELSE history_copy_in([hist EXCEPT ![i] = buf[from + i]], buf, from, len,
                       i + 1)

\* Line 376: highest_copyable (int) < MEVCLI_HISTORY_MAX_STRS - 2 (unsigned).
history_spare_index(highest_copyable) ==
  ToUnsigned(highest_copyable) < ToUnsigned(MEVCLI_HISTORY_MAX_STRS - 2)

\* Lines 345-373: with something copyable the old entries move up and
\* history_strlens_topvalid follows; otherwise the new entry is the only one.
history_make_room(c, len, highest_copyable, starts_at) ==
  IF highest_copyable >= 0
  THEN [history_shift(c, len, highest_copyable, starts_at)
          EXCEPT !.history_strlens_topvalid =
            IF highest_copyable < (MEVCLI_HISTORY_MAX_STRS - 1)
            THEN highest_copyable + 1 ELSE highest_copyable]
  ELSE [c EXCEPT !.history_strlens_topvalid = 0]

\* Lines 376-382: the length after the top entry is zeroed when line 376
\* finds a slot for it.
history_terminate(c, highest_copyable) ==
  IF history_spare_index(highest_copyable)
  THEN [c EXCEPT !.history_strlens[highest_copyable + 2] = 0]
  ELSE c

\* Lines 385-393: the new string goes to the start of the pool and its length
\* to slot 0; browsing ends.
history_store(c, buf, last_cmd, len) ==
  [c EXCEPT !.history = history_copy_in(@, buf, last_cmd, len, 0),
            !.history_strlens[0] = len,
            !.cur_hist_browse_idx = -1]

\* Lines 345-393, given the result of the scan of lines 331-343.
history_append_scanned(c, last_cmd, len, scan) ==
  history_store(
    history_terminate(
      history_make_room(c, len, scan.highest_copyable, scan.starts_at),
      scan.highest_copyable),
    c.line, last_cmd, len)

\* Lines 331-393, given len = strlen(last_cmd) + 1.
history_append_len(c, last_cmd, len) ==
  history_append_scanned(c, last_cmd, len,
                         history_scan(c.history_strlens, len, 0, 0, -1, 0))

\* The index at which the word at buf[i..] ends.
RECURSIVE word_end(_, _)
word_end(buf, i) ==
  IF i \notin DOMAIN buf \/ buf[i] <= 32 THEN i ELSE word_end(buf, i + 1)

\* mevcli_history_append of the command word alone.
history_append_word(c, last_cmd) ==
  history_append_len(c, last_cmd, word_end(c.line, last_cmd) - last_cmd + 1)

\* last_cmd is the index in c.line at which the appended string starts.
mevcli_history_append(c, last_cmd) ==
  history_append_len(c, last_cmd, mevcli_strlen(c.line, last_cmd) + 1)


(***************************************************************************)
(* Command execution                                                       *)
(***************************************************************************)
\* "Unknown command"
WhyUnknown ==
  <<85, 110, 107, 110, 111, 119, 110, 32, 99, 111, 109, 109, 97, 110, 100>>

\* "Command args are incorrect"
WhyArgs ==
  <<67, 111, 109, 109, 97, 110, 100, 32, 97, 114, 103, 115, 32, 97, 114,
    101, 32, 105, 110, 99, 111, 114, 114, 101, 99, 116>>

\* ".  Commands are:\r\n\r\n"
HelpHeading ==
  <<46, 32, 32, 67, 111, 109, 109, 97, 110, 100, 115, 32, 97, 114, 101, 58,
    CR, LF, CR, LF>>

\* Lines 405-410: one row per command from index cmd on.
RECURSIVE help_rows(_, _)
help_rows(c, cmd) ==
  IF cmd >= num_commands THEN c
  ELSE help_rows(
         mevcli_newl(
           mevcli_putstr(
             mevcli_putstr(mevcli_putch(c, TAB), commands[cmd].name),
             commands[cmd].help)),
         cmd + 1)

mevcli_help(c, why) ==
  mevcli_newl(
    help_rows(mevcli_putstr(mevcli_putstr(mevcli_newl(c), why), HelpHeading),
              0))

\* mevcli_lowercase_alpha folding nothing.
lowercase_alpha_identity(ch) == ch

\* c |= 0x20 for 'A'..'Z': bit 5 is clear in each of them.
mevcli_lowercase_alpha(ch) == IF ch >= 65 /\ ch <= 90 THEN ch + 32 ELSE ch

\* needle is the C string at buf[n..], haystack the name from its 1-based
\* position h on (its terminator follows its last byte).
RECURSIVE str_match_from(_, _, _, _)
str_match_from(buf, n, name, h) ==
  LET nb == buf[n]
      hb == IF h > Len(name) THEN NUL ELSE name[h]
  IN IF nb # NUL /\ hb # NUL
     THEN IF mevcli_lowercase_alpha(nb) # mevcli_lowercase_alpha(hb)
          THEN FALSE
          ELSE str_match_from(buf, n + 1, name, h + 1)
     ELSE nb = NUL /\ hb = NUL

\* mevcli_str_match comparing the first bytes only.
str_match_first_byte(buf, needle, haystack) ==
  mevcli_lowercase_alpha(buf[needle]) = mevcli_lowercase_alpha(haystack[1])

mevcli_str_match(buf, needle, haystack) ==
  str_match_from(buf, needle, haystack, 1)

\* The scan of lines 453-458 stopping at the first byte, whatever it is.
find_command_any(buf, i, end) == IF i >= end THEN -1 ELSE i

\* Lines 453-458: index of the first byte above ' ' in line[i..linepos), or -1.
RECURSIVE find_command(_, _, _)
find_command(buf, i, end) ==
  IF i >= end THEN -1
  ELSE IF buf[i] > SP THEN i
  ELSE find_command(buf, i + 1, end)

\* Lines 468-476: terminate every byte <= ' ' in line[i..linepos); returns the
\* line and aftercmd_idx.
RECURSIVE plonk_terminators(_, _, _, _)
plonk_terminators(buf, i, end, aftercmd_idx) ==
  IF i >= end THEN [line |-> buf, aftercmd_idx |-> aftercmd_idx]
  ELSE IF buf[i] <= SP
  THEN plonk_terminators([buf EXCEPT ![i] = NUL], i + 1, end,
                         IF aftercmd_idx = -1 THEN i ELSE aftercmd_idx)
  ELSE plonk_terminators(buf, i + 1, end, aftercmd_idx)

\* The loop of lines 479-487 settling for entry 0 when no name matches.
match_command_or_first(buf, command, cmd) ==
  IF \E e \in cmd..(num_commands - 1) :
       mevcli_str_match(buf, command, commands[e].name)
  THEN CHOOSE e \in cmd..(num_commands - 1) :
         /\ mevcli_str_match(buf, command, commands[e].name)
         /\ \A j \in cmd..(e - 1) :
              ~mevcli_str_match(buf, command, commands[j].name)
  ELSE 0

\* Lines 479-487: the first table index from cmd on whose name matches, or
\* ~0, written -1 here.
RECURSIVE match_command(_, _, _)
match_command(buf, command, cmd) ==
  IF cmd >= num_commands THEN -1
  ELSE IF mevcli_str_match(buf, command, commands[cmd].name) THEN cmd
  ELSE match_command(buf, command, cmd + 1)

\* Lines 507-510: the index at which the inner skip loop stops.
RECURSIVE skip_arg(_, _, _)
skip_arg(buf, i, end) ==
  IF i >= end \/ buf[i] = NUL THEN i ELSE skip_arg(buf, i + 1, end)

\* The loop of lines 498-512 taking the byte at i as an argument whatever it
\* is.
collect_args_at_gap(buf, i, end, argv, argc) ==
  IF i >= end THEN [args |-> argv, argc |-> argc]
  ELSE [args |-> [argv EXCEPT ![argc] = i], argc |-> argc + 1]

\* Lines 498-512: args is the pointer array (indices into line), argc the
\* count so far.
RECURSIVE collect_args(_, _, _, _, _)
collect_args(buf, i, end, argv, argc) ==
  IF i >= end THEN [args |-> argv, argc |-> argc]
  ELSE IF buf[i] # NUL
  THEN LET argv1 == [argv EXCEPT ![argc] = i]
           argc1 == argc + 1
       IN IF argc1 >= MEVCLI_MAX_ARGS
          THEN [args |-> argv1, argc |-> argc1]
          ELSE collect_args(buf, skip_arg(buf, i, end) + 1, end, argv1, argc1)
  ELSE collect_args(buf, i + 1, end, argv, argc)

\* The C string at buf[from..], as the handler reads it through argv.
RECURSIVE c_string(_, _)
c_string(buf, from) ==
  IF from \notin DOMAIN buf \/ buf[from] = NUL THEN <<>>
  ELSE <<buf[from]>> \o c_string(buf, from + 1)

\* Line 520: cmd->cmdfn(cmd->opaque, argc, ctx->args).  The handlers are the
\* host's; the call is recorded with the arguments as the handler reads them.
call_cmdfn(c, gotcmd, argc) ==
  [c EXCEPT !.calls =
     Append(@, [cmd |-> gotcmd, argc |-> argc,
                argv |-> [k \in 1..argc |-> c_string(c.line, c.args[k - 1])],
                history |-> c.history,
                history_strlens |-> c.history_strlens,
                out |-> c.out])]

\* The label `out` without the reset of linepos.
process_cmd_out_keeps_linepos(c) == mevcli_prompt([c EXCEPT !.cursorpos = 0])

\* Lines 522-524, the label `out`.
process_cmd_out(c) == mevcli_prompt([c EXCEPT !.cursorpos = 0, !.linepos = 0])

\* Lines 515-520, given the result a of the argument scan: the argument
\* count is checked against the entry's nargs and the handler is called.
process_cmd_call(c, gotcmd, a) ==
  IF commands[gotcmd].nargs # -1 /\ ToUnsigned(commands[gotcmd].nargs) # a.argc
  THEN mevcli_help([c EXCEPT !.args = a.args], WhyArgs)
  ELSE call_cmdfn([c EXCEPT !.args = a.args], gotcmd, a.argc)

\* Lines 488-520, given the table index gotcmd found by lines 478-487.
process_cmd_matched(c, aftercmd_idx, gotcmd) ==
  IF gotcmd = -1 THEN mevcli_help(c, WhyUnknown)
  ELSE process_cmd_call(c, gotcmd,
         IF aftercmd_idx # -1
         THEN collect_args(c.line, aftercmd_idx, c.linepos, c.args, 0)
         ELSE [args |-> c.args, argc |-> 0])

\* Lines 478-520, given the result t of the terminator loop.
process_cmd_plonked(c, command_idx, t) ==
  process_cmd_matched([c EXCEPT !.line = t.line], t.aftercmd_idx,
                      match_command(t.line, command_idx, 0))

\* Lines 467-520: the line, already in the history, is split and run.
process_cmd_split(c, command_idx) ==
  process_cmd_plonked(c, command_idx,
                      plonk_terminators(c.line, command_idx, c.linepos, -1))

\* Lines 460-520 with the history append moved behind the handler.
process_cmd_found_append_last(c, command_idx) ==
  IF command_idx = -1 THEN c
  ELSE mevcli_history_append(process_cmd_split(c, command_idx), command_idx)

\* Lines 460-520, given the index found by lines 448-458: a line without a
\* command goes straight to `out`.
process_cmd_found(c, command_idx) ==
  IF command_idx = -1 THEN c
  ELSE process_cmd_split(mevcli_history_append(c, command_idx), command_idx)

\* Lines 448-520
process_cmd_line(c) == process_cmd_found(c, find_command(c.line, 0, c.linepos))

mevcli_process_cmd(c) ==
  process_cmd_out(
    process_cmd_line(mevcli_newl([c EXCEPT !.line[c.linepos] = NUL])))


(***************************************************************************)
(* Cursor movement                                                         *)
(***************************************************************************)
\* putch(line[i]) for i = from .. to - 1
RECURSIVE put_line(_, _, _)
put_line(c, from, to) ==
  IF from >= to THEN c
  ELSE put_line(mevcli_putch(c, c.line[from]), from + 1, to)

\* putch(line[i]) for i = from .. linepos - 1
put_line_from(c, from) == put_line(c, from, c.linepos)

\* mevcli_ansi_cursorpos(ctx, ctx->prompt_len + ctx->cursorpos)
cursorpos_at_cursor(c) == mevcli_ansi_cursorpos(c, c.prompt_len + c.cursorpos)

mevcli_line_redraw(c) ==
  cursorpos_at_cursor(
    put_line_from(
      mevcli_ansi_eraseright(mevcli_ansi_cursorpos(c, c.prompt_len)), 0))

\* dest[i] = src[i] for i = from .. len - 1
RECURSIVE mevcli_cpy_from(_, _, _, _, _)
mevcli_cpy_from(dest, src, srcoff, len, i) ==
  IF i >= len THEN dest
  ELSE mevcli_cpy_from([dest EXCEPT ![i] = src[srcoff + i]], src, srcoff,
                       len, i + 1)

\* src is the array with the offset of its first copied byte.
mevcli_cpy(dest, src, srcoff, len) == mevcli_cpy_from(dest, src, srcoff, len, 0)

\* Lines 565-569: the sum of history_strlens[i .. cur_hist_browse_idx - 1].
RECURSIVE browsed_offset(_, _, _)
browsed_offset(lens, i, idx) ==
  IF i >= idx THEN 0 ELSE lens[i] + browsed_offset(lens, i + 1, idx)

\* Copies the browsed entry into line; returns the context and linelen.
mevcli_history_copy_browsed_line(c) ==
  LET total_histlen == browsed_offset(c.history_strlens, 0,
                                      c.cur_hist_browse_idx)
      linelen == c.history_strlens[c.cur_hist_browse_idx] - 1
  IN [ctx |-> [c EXCEPT !.line = mevcli_cpy(@, c.history, total_histlen,
                                            linelen)],
      linelen |-> linelen]

\* Lines 592-596 and 617-622: r is what mevcli_history_copy_browsed_line
\* returned; the copied line becomes the current one and is drawn.
show_browsed_line(r) ==
  mevcli_line_redraw([r.ctx EXCEPT !.linepos = r.linelen,
                                   !.cursorpos = r.linelen])

\* Lines 583-587 saving the line being typed in the history pool.
backup_into_history(c) ==
  IF c.cur_hist_browse_idx = -1
  THEN [c EXCEPT !.history = mevcli_cpy(@, c.line, 0, c.linepos),
                 !.backup_linepos = c.linepos]
  ELSE c

\* Lines 583-587: the line being typed is saved when browsing starts.
backup_current_line(c) ==
  IF c.cur_hist_browse_idx = -1
  THEN [c EXCEPT !.backup_line = mevcli_cpy(@, c.line, 0, c.linepos),
                 !.backup_linepos = c.linepos]
  ELSE c

\* mevcli_cursor_up stopping at the last slot of the table instead of at
\* history_strlens_topvalid.
cursor_up_to_last_slot(c) ==
  IF c.cur_hist_browse_idx = MEVCLI_HISTORY_MAX_STRS - 1
  THEN mevcli_putch(c, MEVCLI_BELL_CHAR)
  ELSE [c EXCEPT !.cur_hist_browse_idx = @ + 1]

mevcli_cursor_up(c) ==
  IF c.cur_hist_browse_idx = c.history_strlens_topvalid
  THEN mevcli_putch(c, MEVCLI_BELL_CHAR)
  ELSE show_browsed_line(
         mevcli_history_copy_browsed_line(
           [backup_current_line(c) EXCEPT !.cur_hist_browse_idx = @ + 1]))

\* mevcli_cursor_down leaving the newest entry without restoring the backup.
cursor_down_keeps_line(c) ==
  IF c.cur_hist_browse_idx = -1
  THEN mevcli_putch(c, MEVCLI_BELL_CHAR)
  ELSE IF c.cur_hist_browse_idx = 0
  THEN mevcli_line_redraw([c EXCEPT !.cur_hist_browse_idx = -1])
  ELSE show_browsed_line(
         mevcli_history_copy_browsed_line(
           [c EXCEPT !.cur_hist_browse_idx = @ - 1]))

mevcli_cursor_down(c) ==
  IF c.cur_hist_browse_idx = -1
  THEN mevcli_putch(c, MEVCLI_BELL_CHAR)
  ELSE IF c.cur_hist_browse_idx = 0
  THEN mevcli_line_redraw(
         [c EXCEPT !.line = mevcli_cpy(@, c.backup_line, 0, c.backup_linepos),
                   !.linepos = c.backup_linepos,
                   !.cursorpos = c.backup_linepos,
                   !.cur_hist_browse_idx = -1])
  ELSE show_browsed_line(
         mevcli_history_copy_browsed_line(
           [c EXCEPT !.cur_hist_browse_idx = @ - 1]))

mevcli_cursor_right(c) ==
  IF c.cursorpos < c.linepos
  THEN cursorpos_at_cursor([c EXCEPT !.cursorpos = @ + 1])
  ELSE c

mevcli_cursor_left(c) ==
  IF c.cursorpos > 0
  THEN cursorpos_at_cursor([c EXCEPT !.cursorpos = @ - 1])
  ELSE c

\* The loop of lines 660-667 stopping at the first white space it meets.
RECURSIVE search_left_no_skip(_, _, _)
search_left_no_skip(buf, i, saw_real_char) ==
  IF i <= 0 THEN 0
  ELSE IF buf[i - 1] <= 32 THEN i
  ELSE search_left_no_skip(buf, i - 1, TRUE)

\* Lines 660-667: the loop from index i down, having seen a real char or not.
RECURSIVE search_left_from(_, _, _)
search_left_from(buf, i, saw_real_char) ==
  IF i <= 0 THEN 0
  ELSE IF buf[i - 1] <= SP
  THEN IF saw_real_char THEN i ELSE search_left_from(buf, i - 1, FALSE)
  ELSE search_left_from(buf, i - 1, TRUE)

mevcli_search_word_left(c) ==
  IF c.cursorpos > 0 THEN search_left_from(c.line, c.cursorpos, FALSE) ELSE 0

\* Lines 681-688
RECURSIVE search_right_from(_, _, _, _)
search_right_from(buf, i, end, saw_real_char) ==
  IF i >= end THEN end
  ELSE IF buf[i] <= SP
  THEN IF saw_real_char THEN i ELSE search_right_from(buf, i + 1, end, FALSE)
  ELSE search_right_from(buf, i + 1, end, TRUE)

mevcli_search_word_right(c) ==
  IF c.cursorpos < c.linepos
  THEN search_right_from(c.line, c.cursorpos, c.linepos, FALSE)
  ELSE c.linepos

mevcli_cursor_right_word(c) ==
  cursorpos_at_cursor([c EXCEPT !.cursorpos = mevcli_search_word_right(c)])

mevcli_cursor_left_word(c) ==
  cursorpos_at_cursor([c EXCEPT !.cursorpos = mevcli_search_word_left(c)])

mevcli_cursor_start(c) ==
  IF c.cursorpos > 0
  THEN mevcli_ansi_cursorpos([c EXCEPT !.cursorpos = 0], c.prompt_len)
  ELSE c

mevcli_cursor_end(c) ==
  IF c.cursorpos < c.linepos
  THEN cursorpos_at_cursor([c EXCEPT !.cursorpos = c.linepos])
  ELSE c

(***************************************************************************)
(* Editing/insertion                                                       *)
(***************************************************************************)
\* The loop of lines 744-746 moving nothing.
cut_shift_none(buf, pos, cur, i, end) == buf

\* Lines 744-746: line[pos + i - cursorpos] = line[i] for i = i .. linepos - 1
RECURSIVE cut_shift(_, _, _, _, _)
cut_shift(buf, pos, cur, i, end) ==
  IF i >= end THEN buf
  ELSE cut_shift([buf EXCEPT ![pos + i - cur] = buf[i]], pos, cur, i + 1, end)

\* Lines 751-757: the line is drawn again from the cursor on.
redraw_from_cursor(c) ==
  cursorpos_at_cursor(
    put_line_from(mevcli_ansi_eraseright(cursorpos_at_cursor(c)),
                  c.cursorpos))

mevcli_cut_down_to(c, pos) ==
  IF c.cursorpos = c.linepos
  THEN IF c.cursorpos - pos = 1
       THEN mevcli_putstr([c EXCEPT !.cursorpos = pos, !.linepos = pos],
                          <<8, SP, 8>>)
       ELSE redraw_from_cursor([c EXCEPT !.cursorpos = pos, !.linepos = pos])
  ELSE redraw_from_cursor(
         [c EXCEPT !.line = cut_shift(@, pos, c.cursorpos, c.cursorpos,
                                      c.linepos),
                   !.linepos = @ - (c.cursorpos - pos),
                   !.cursorpos = pos])

mevcli_char_delete(c) ==
  IF c.cursorpos > 0 THEN mevcli_cut_down_to(c, c.cursorpos - 1) ELSE c

mevcli_cut_start(c) == mevcli_cut_down_to(c, 0)

mevcli_cut_word(c) == mevcli_cut_down_to(c, mevcli_search_word_left(c))

mevcli_cut_end(c) ==
  IF c.cursorpos < c.linepos
  THEN [mevcli_ansi_eraseright(c) EXCEPT !.linepos = c.cursorpos]
  ELSE c

\* The loop of lines 809-811 moving nothing.
insert_shift_none(buf, i, cur) == buf

\* Lines 809-811: line[i] = line[i - 1] for i = i down to cursorpos + 1
RECURSIVE insert_shift(_, _, _)
insert_shift(buf, i, cur) ==
  IF i <= cur THEN buf
  ELSE insert_shift([buf EXCEPT ![i] = buf[i - 1]], i - 1, cur)

\* Lines 814-820: the line is drawn again from the inserted byte on.
redraw_inserted(c) ==
  cursorpos_at_cursor(
    put_line_from(
      mevcli_ansi_eraseright(
        mevcli_ansi_cursorpos(c, c.prompt_len + c.cursorpos - 1)),
      c.cursorpos - 1))

\* mevcli_char_insert at the end of the line, without the test for a full
\* line.
char_insert_unchecked(c, in) ==
  mevcli_putch([c EXCEPT !.line[c.linepos] = in,
                         !.linepos = @ + 1,
                         !.cursorpos = @ + 1], in)

\* mevcli_char_insert refusing a byte at a full line without the bell.
char_insert_silent(c, in) ==
  IF c.linepos >= MEVCLI_MAX_LINE_LEN
  THEN c
  ELSE IF c.cursorpos = c.linepos
  THEN mevcli_putch([c EXCEPT !.line[c.linepos] = in,
                              !.linepos = @ + 1,
                              !.cursorpos = @ + 1], in)
  ELSE redraw_inserted(
         [c EXCEPT !.linepos = @ + 1,
                   !.line = [insert_shift(@, c.linepos + 1, c.cursorpos)
                               EXCEPT ![c.cursorpos] = in],
                   !.cursorpos = @ + 1])

mevcli_char_insert(c, in) ==
  IF c.linepos >= MEVCLI_MAX_LINE_LEN
  THEN mevcli_putch(c, MEVCLI_BELL_CHAR)
  ELSE IF c.cursorpos = c.linepos
  THEN mevcli_putch([c EXCEPT !.line[c.linepos] = in,
                              !.linepos = @ + 1,
                              !.cursorpos = @ + 1], in)
  ELSE redraw_inserted(
         [c EXCEPT !.linepos = @ + 1,
                   !.line = [insert_shift(@, c.linepos + 1, c.cursorpos)
                               EXCEPT ![c.cursorpos] = in],
                   !.cursorpos = @ + 1])


(***************************************************************************)
(* Input processing                                                        *)
(***************************************************************************)
\* The switch of lines 850-872 taking any byte for '['.
esc_any_byte_opens_csi(c, in) == [c EXCEPT !.csi_fsm_state = 2]

\* Lines 850-872: the byte after ESC; c is the context after line 847.
esc_seq_after_esc(c, in) ==
  CASE in = 91 -> [c EXCEPT !.csi_fsm_state = 2]
    [] in = 98 -> mevcli_cursor_left_word(c)
    [] in = 102 -> mevcli_cursor_right_word(c)
    [] OTHER -> c

\* Lines 876-889: the byte after ESC [.
esc_seq_after_csi(c, in) ==
  CASE in = 65 -> mevcli_cursor_up(c)
    [] in = 66 -> mevcli_cursor_down(c)
    [] in = 67 -> mevcli_cursor_right(c)
    [] in = 68 -> mevcli_cursor_left(c)
    [] OTHER -> c

\* Returns the context and the function's result (true: the byte is handled).
mevcli_process_esc_seq(c, in) ==
  CASE c.csi_fsm_state = 0 ->
         IF in = ESC
         THEN [ctx |-> [c EXCEPT !.csi_fsm_state = 1], ret |-> TRUE]
         ELSE [ctx |-> c, ret |-> FALSE]
    [] c.csi_fsm_state = 1 ->
         [ctx |-> esc_seq_after_esc([c EXCEPT !.csi_fsm_state = 0], in),
          ret |-> TRUE]
    [] OTHER ->
         [ctx |-> [esc_seq_after_csi(c, in) EXCEPT !.csi_fsm_state = 0],
          ret |-> TRUE]

\* Lines 939-983, given what mevcli_process_esc_seq returned.
input_char_after_esc(c, in, e) ==
  IF e.ret THEN e.ctx
  ELSE CASE in = TAB -> c
         [] in = CR -> mevcli_process_cmd(c)
         [] in = DEL -> mevcli_char_delete(c)
         [] in = CTRL_A -> mevcli_cursor_start(c)
         [] in = CTRL_E -> mevcli_cursor_end(c)
         [] in = CTRL_U -> mevcli_cut_start(c)
         [] in = CTRL_W -> mevcli_cut_word(c)
         [] in = CTRL_K -> mevcli_cut_end(c)
         [] OTHER -> IF in < SP \/ in > 126 THEN c
                     ELSE mevcli_char_insert(c, in)

mevcli_input_char(c, in) ==
  input_char_after_esc(c, in, mevcli_process_esc_seq(c, in))

\* A context in static storage (src/test/main.c:127), before mevcli_init.
ZeroCtx ==
  [prompt_len |-> 0, linepos |-> 0, cursorpos |-> 0, csi_fsm_state |-> 0,
   line |-> [i \in 0..MEVCLI_MAX_LINE_LEN |-> NUL],
   args |-> [i \in 0..(MEVCLI_MAX_ARGS - 1) |-> -1],
   history |-> [i \in 0..(MEVCLI_HISTORY_BUFLEN - 1) |-> NUL],
   backup_line |-> [i \in 0..MEVCLI_MAX_LINE_LEN |-> NUL],
   backup_linepos |-> 0,
   history_strlens |-> [i \in 0..(MEVCLI_HISTORY_MAX_STRS - 1) |-> 0],
   history_strlens_topvalid |-> 0,
   cur_hist_browse_idx |-> 0,
   out |-> <<>>, calls |-> <<>>]

mevcli_init(c) ==
  mevcli_prompt(
    [c EXCEPT !.csi_fsm_state = 0, !.cursorpos = 0, !.linepos = 0,
              !.history_strlens =
                 [i \in 0..(MEVCLI_HISTORY_MAX_STRS - 1) |-> 0],
              !.history_strlens_topvalid = -1,
              !.cur_hist_browse_idx = -1])

(***************************************************************************)
(* State                                                                   *)
(***************************************************************************)
VARIABLES
  \* the fields of mevcli_ctx_t
  prompt_len, linepos, cursorpos, csi_fsm_state, line, args,
  history, backup_line, backup_linepos,
  history_strlens, history_strlens_topvalid, cur_hist_browse_idx,
  \* the bytes given to cb_output_char and the cmdfn calls made by the most
  \* recent call of the API
  out, calls,
  \* recorder of a run of browse-ups followed by browse-downs
  run,
  \* the non-blank lines submitted so far, newest first, as many of them as
  \* the history counts as held
  submitted,
  \* how far into that log the up and down keys have walked since the last
  \* submit: -1 at the line being typed, k at the k-th line of the log
  \* counted from 0
  browse_pos,
  \* what the most recent call of the API was: "init", a "submit", a
  \* browse-"up", a browse-"down" or any "other" byte
  last,
  \* recorder of a printable byte followed by DEL
  undo,
  \* the user driving the session
  user

vars == <<prompt_len, linepos, cursorpos, csi_fsm_state, line, args,
          history, backup_line, backup_linepos,
          history_strlens, history_strlens_topvalid, cur_hist_browse_idx,
          out, calls, run, submitted, browse_pos, last, undo, user>>

\* The context on entry to an API call.
Ctx ==
  [prompt_len |-> prompt_len, linepos |-> linepos, cursorpos |-> cursorpos,
   csi_fsm_state |-> csi_fsm_state, line |-> line, args |-> args,
   history |-> history, backup_line |-> backup_line,
   backup_linepos |-> backup_linepos, history_strlens |-> history_strlens,
   history_strlens_topvalid |-> history_strlens_topvalid,
   cur_hist_browse_idx |-> cur_hist_browse_idx,
   out |-> <<>>, calls |-> <<>>]

\* The context on return from an API call.
Return(c) ==
  /\ prompt_len' = c.prompt_len
  /\ linepos' = c.linepos
  /\ cursorpos' = c.cursorpos
  /\ csi_fsm_state' = c.csi_fsm_state
  /\ line' = c.line
  /\ args' = c.args
  /\ history' = c.history
  /\ backup_line' = c.backup_line
  /\ backup_linepos' = c.backup_linepos
  /\ history_strlens' = c.history_strlens
  /\ history_strlens_topvalid' = c.history_strlens_topvalid
  /\ cur_hist_browse_idx' = c.cur_hist_browse_idx
  /\ out' = c.out
  /\ calls' = c.calls

\* line[0..n) of a buffer as a sequence.
Text(buf, n) == [k \in 1..n |-> buf[k - 1]]

RunIdle == [phase |-> "idle", ups |-> 0, downs |-> 0, line0 |-> <<>>,
            browse0 |-> -1]

\* The recorder after a call with byte in: it follows a run of ESC [ A
\* sequences followed by ESC [ B sequences and remembers the line and
\* cur_hist_browse_idx the run started from.
RunAfter(in) ==
  CASE csi_fsm_state = 2 /\ in = 65 ->
         IF run.phase = "ups"
         THEN IF run.ups < MaxBrowseRun
              THEN [run EXCEPT !.ups = @ + 1] ELSE RunIdle
         ELSE [phase |-> "ups", ups |-> 1, downs |-> 0,
               line0 |-> Text(line, linepos),
               browse0 |-> cur_hist_browse_idx]
    [] csi_fsm_state = 2 /\ in = 66 ->
         IF run.phase \in {"ups", "downs"} /\ run.downs < run.ups
         THEN [run EXCEPT !.phase = "downs", !.downs = @ + 1]
         ELSE RunIdle
    [] (csi_fsm_state = 0 /\ in = ESC) \/ (csi_fsm_state = 1 /\ in = 91) -> run
    [] OTHER -> RunIdle

\* The bytes of line[0..linepos) from the first byte that is no white space
\* on: the line as the user typed it, without its leading white space.
RECURSIVE TypedLine(_)
TypedLine(i) ==
  IF i >= linepos THEN <<>>
  ELSE IF line[i] \in {SP, TAB} THEN TypedLine(i + 1)
  ELSE [k \in 1..(linepos - i) |-> line[i + k - 1]]

\* The log after a call with byte in that leaves top entries counted as held
\* by the history: a CR taken as a submit (the recognizer is idle) of a line
\* that is not blank puts the line in front, and the log keeps no more lines
\* than the history counts.
SubmittedAfter(in, top) ==
  IF csi_fsm_state = 0 /\ in = CR /\ TypedLine(0) # <<>>
  THEN SubSeq(<<TypedLine(0)>> \o submitted, 1,
              IF Len(submitted) < top THEN Len(submitted) + 1 ELSE top)
  ELSE submitted

\* The walk after a call with byte in: a submit ends it, ESC [ A steps to the
\* next older line of the log when there is one, ESC [ B steps back.
BrowsePosAfter(in) ==
  CASE csi_fsm_state = 0 /\ in = CR -> -1
    [] csi_fsm_state = 2 /\ in = 65 ->
         IF browse_pos + 1 < Len(submitted) THEN browse_pos + 1
         ELSE browse_pos
    [] csi_fsm_state = 2 /\ in = 66 ->
         IF browse_pos >= 0 THEN browse_pos - 1 ELSE browse_pos
    [] OTHER -> browse_pos

\* What a call with byte in is: CR with the recognizer idle is a submit,
\* the final byte of ESC [ A a browse-up, that of ESC [ B a browse-down.
LastAfter(in) ==
  CASE csi_fsm_state = 0 /\ in = CR -> "submit"
    [] csi_fsm_state = 2 /\ in = 65 -> "up"
    [] csi_fsm_state = 2 /\ in = 66 -> "down"
    [] OTHER -> "other"

UndoIdle == [phase |-> "idle", line0 |-> <<>>, cursorpos0 |-> 0, csi0 |-> 0]

\* The recorder after a call with byte in: a printable byte fed while the
\* recognizer is idle or has seen ESC is remembered with the line, the cursor
\* and the recognizer state it met, and a DEL fed next completes the pair.
UndoAfter(in) ==
  IF in >= SP /\ in <= 126 /\ csi_fsm_state \in {0, 1}
  THEN [phase |-> "fed", line0 |-> Text(line, linepos),
        cursorpos0 |-> cursorpos, csi0 |-> csi_fsm_state]
  ELSE IF in = DEL /\ undo.phase = "fed"
  THEN [undo EXCEPT !.phase = "undone"]
  ELSE UndoIdle

\* One call mevcli_input_char(ctx, b), b read as the char value in.
InputChar(b, in) ==
  /\ Return(mevcli_input_char(Ctx, in))
  /\ run' = RunAfter(b)
  /\ submitted' = SubmittedAfter(b, history_strlens_topvalid' + 1)
  /\ browse_pos' = BrowsePosAfter(b)
  /\ last' = LastAfter(b)
  /\ undo' = UndoAfter(b)
  /\ user' = user

Init ==
  /\ LET c == mevcli_init(ZeroCtx)
     IN /\ prompt_len = c.prompt_len
        /\ linepos = c.linepos
        /\ cursorpos = c.cursorpos
        /\ csi_fsm_state = c.csi_fsm_state
        /\ line = c.line
        /\ args = c.args
        /\ history = c.history
        /\ backup_line = c.backup_line
        /\ backup_linepos = c.backup_linepos
        /\ history_strlens = c.history_strlens
        /\ history_strlens_topvalid = c.history_strlens_topvalid
        /\ cur_hist_browse_idx = c.cur_hist_browse_idx
        /\ out = c.out
        /\ calls = c.calls
  /\ run = RunIdle
  /\ submitted = <<>>
  /\ browse_pos = -1
  /\ last = "init"
  /\ undo = UndoIdle
  /\ user \in Users

(***************************************************************************)
(* Actions: one per branch of mevcli_input_char and of the recognizer.     *)
(* The guards on `user` are the environment's; the rest is the code's.     *)
(***************************************************************************)
\* No byte above ' ' in line[0..linepos): a submit finds no command.
BlankLine == find_command(line, 0, linepos) = -1

Escapes == user \in {"editor", "browser", "reviser"}

Edits == user = "editor"

EscStart == Escapes /\ csi_fsm_state = 0 /\ InputChar(ESC, ESC)

EscBracket == csi_fsm_state = 1 /\ InputChar(91, 91)

EscWordLeft == Edits /\ csi_fsm_state = 1 /\ InputChar(98, 98)

EscWordRight == Edits /\ csi_fsm_state = 1 /\ InputChar(102, 102)

EscUnknown ==
  /\ Edits
  /\ csi_fsm_state = 1
  /\ \E b \in UnknownEscBytes \cup {65} : InputChar(b, b)

CsiUp == csi_fsm_state = 2 /\ InputChar(65, 65)

CsiDown == csi_fsm_state = 2 /\ InputChar(66, 66)

CsiRight == Edits /\ csi_fsm_state = 2 /\ InputChar(67, 67)

CsiLeft == Edits /\ csi_fsm_state = 2 /\ InputChar(68, 68)

CsiUnknown ==
  /\ Edits
  /\ csi_fsm_state = 2
  /\ \E b \in UnknownEscBytes \cup {98} : InputChar(b, b)

Tab == Edits /\ csi_fsm_state = 0 /\ InputChar(TAB, TAB)

Submit ==
  /\ \/ BlankLine
     \/ user \in {"browser", "reviser"}
     \/ user = "shell" /\ history_strlens_topvalid < MaxShellSubmits - 1
  /\ csi_fsm_state = 0
  /\ InputChar(CR, CR)

Delete == Edits /\ csi_fsm_state = 0 /\ InputChar(DEL, DEL)

CursorStart == Edits /\ csi_fsm_state = 0 /\ InputChar(CTRL_A, CTRL_A)

CursorEnd == Edits /\ csi_fsm_state = 0 /\ InputChar(CTRL_E, CTRL_E)

CutStart ==
  /\ user \in {"editor", "reviser"}
  /\ csi_fsm_state = 0
  /\ InputChar(CTRL_U, CTRL_U)

CutWord == Edits /\ csi_fsm_state = 0 /\ InputChar(CTRL_W, CTRL_W)

CutEnd == Edits /\ csi_fsm_state = 0 /\ InputChar(CTRL_K, CTRL_K)

Ignore ==
  /\ Edits
  /\ csi_fsm_state = 0
  /\ \E b \in OtherBytes : \E in \in CharValues(b) : InputChar(b, in)

Insert ==
  /\ user = "browser" => linepos < MaxBrowserLine
  /\ user = "reviser" => linepos < MaxReviserLine
  /\ csi_fsm_state = 0
  /\ \E b \in TypedBytes(user) : InputChar(b, b)

Next ==
  \/ EscStart \/ EscBracket \/ EscWordLeft \/ EscWordRight \/ EscUnknown
  \/ CsiUp \/ CsiDown \/ CsiRight \/ CsiLeft \/ CsiUnknown
  \/ Tab \/ Submit \/ Delete \/ CursorStart \/ CursorEnd
  \/ CutStart \/ CutWord \/ CutEnd \/ Ignore \/ Insert

Spec == Init /\ [][Next]_vars

(***************************************************************************)
(* mevcli_ansi_cursorpos on its own.  The host's prompt may have any       *)
(* length (MEVCLI_PROMPT may name a string the host changes), and           *)
(* prompt_len is the column that mevcli_line_redraw and mevcli_cursor_start *)
(* hand to mevcli_ansi_cursorpos.                                          *)
(***************************************************************************)
\* The longest prompt considered.
MaxColumn == 1001

\* What the byte after char digits[3] may hold when mevcli_ansi_cursorpos
\* reads it: nothing has written it.
StackBytes == {0, 1, 7}

\* The context after mevcli_init with a prompt of any length up to MaxColumn.
ColumnInit ==
  /\ prompt_len \in 0..MaxColumn
  /\ linepos = 0
  /\ cursorpos = 0
  /\ csi_fsm_state = 0
  /\ line = ZeroCtx.line
  /\ args = ZeroCtx.args
  /\ history = ZeroCtx.history
  /\ backup_line = ZeroCtx.backup_line
  /\ backup_linepos = 0
  /\ history_strlens = ZeroCtx.history_strlens
  /\ history_strlens_topvalid = -1
  /\ cur_hist_browse_idx = -1
  /\ out = <<>>
  /\ calls = <<>>
  /\ run = RunIdle
  /\ submitted = <<>>
  /\ browse_pos = -1
  /\ last = "init"
  /\ undo = UndoIdle
  /\ user = "editor"

\* The call mevcli_ansi_cursorpos(ctx, ctx->prompt_len), the stack holding
\* any of StackBytes after digits.
CursorposPrompt ==
  /\ last = "init"
  /\ \E d \in StackBytes :
       out' = mevcli_ansi_cursorpos_on(
                Ctx, prompt_len, [i \in 0..3 |-> IF i = 3 THEN d ELSE 0]).out
  /\ last' = "column"
  /\ UNCHANGED <<prompt_len, linepos, cursorpos, csi_fsm_state, line, args,
                 history, backup_line, backup_linepos, history_strlens,
                 history_strlens_topvalid, cur_hist_browse_idx, calls, run,
                 submitted, browse_pos, undo, user>>

ColumnNext == CursorposPrompt

ColumnSpec == ColumnInit /\ [][ColumnNext]_vars


(***************************************************************************)
(* Properties                                                              *)
(***************************************************************************)
\* The sum of history_strlens[0..n].
RECURSIVE SumLens(_, _)
SumLens(lens, n) == IF n < 0 THEN 0 ELSE lens[n] + SumLens(lens, n - 1)

\* C1: after mevcli_init and after every mevcli_input_char call,
\* 0 <= cursorpos <= linepos <= MEVCLI_MAX_LINE_LEN.
C1_CursorInLine ==
  0 <= cursorpos /\ cursorpos <= linepos /\ linepos <= MEVCLI_MAX_LINE_LEN

\* A full line with the cursor at its start has just refused a byte.
C1_FullLineRefuses ==
  /\ linepos = MEVCLI_MAX_LINE_LEN
  /\ cursorpos = 0
  /\ cur_hist_browse_idx = -1
  /\ history_strlens_topvalid = -1
  /\ out = <<MEVCLI_BELL_CHAR>>

\* C2: after every mevcli_input_char call every byte of line[0..linepos) is
\* in 0x20..0x7E, browsing the history and restoring the backup included.
C2_LineIsPrintable ==
  \A i \in 0..(linepos - 1) : line[i] >= 32 /\ line[i] <= 126

\* C3: after every mevcli_input_char call the lengths of the slots
\* 0..history_strlens_topvalid sum to MEVCLI_HISTORY_BUFLEN at most, and the
\* slot after history_strlens_topvalid, when the table has one, holds 0.
C3_HistoryAccounting ==
  /\ SumLens(history_strlens, history_strlens_topvalid)
       <= MEVCLI_HISTORY_BUFLEN
  /\ history_strlens_topvalid + 1 < MEVCLI_HISTORY_MAX_STRS
       => history_strlens[history_strlens_topvalid + 1] = 0

\* C4: after every mevcli_input_char call
\* -1 <= cur_hist_browse_idx <= history_strlens_topvalid, and the slot being
\* browsed holds an entry (its length is not 0).
C4_BrowseIndexInHistory ==
  /\ -1 <= cur_hist_browse_idx
  /\ cur_hist_browse_idx <= history_strlens_topvalid
  /\ cur_hist_browse_idx >= 0 => history_strlens[cur_hist_browse_idx] > 0

\* A browse-up at the oldest of two or more entries has just been refused.
C4_BrowseAtOldest ==
  /\ cur_hist_browse_idx = history_strlens_topvalid
  /\ history_strlens_topvalid >= 1
  /\ out = <<MEVCLI_BELL_CHAR>>

\* o ends with the prompt.
EndsWithPrompt(o) ==
  /\ Len(o) >= Len(MEVCLI_PROMPT)
  /\ SubSeq(o, Len(o) - Len(MEVCLI_PROMPT) + 1, Len(o)) = MEVCLI_PROMPT

\* C5: every submit (CR with the recognizer idle) ends with
\* cursorpos = linepos = 0 and with the prompt as the last output of the call,
\* whatever its outcome.
C5_SubmitEndsAtPrompt ==
  [][last' = "submit" => (cursorpos' = 0 /\ linepos' = 0 /\ EndsWithPrompt(out'))]_vars

\* A submit has called a handler with one argument and ended at the prompt.
C5_HandlerThenPrompt ==
  /\ Len(calls) = 1
  /\ calls[1].argc = 1
  /\ calls[1].out = <<CR, LF>>
  /\ cursorpos = 0
  /\ linepos = 0
  /\ out = <<CR, LF>> \o MEVCLI_PROMPT

\* C6: every submit, a submit of an empty or blank line made while browsing
\* included, leaves cur_hist_browse_idx = -1.
C6_SubmitLeavesBrowse == [][last' = "submit" => cur_hist_browse_idx' = -1]_vars

\* C7: from any reachable state, k browse-ups followed at once by k
\* browse-downs leave linepos and line[0..linepos) as they were before the
\* first browse-up.
C7_UpsThenDownsRestore ==
  (run.phase = "downs" /\ run.downs = run.ups)
    => Text(line, linepos) = run.line0

\* C7, for runs that start while no entry is being browsed
\* (cur_hist_browse_idx = -1).
C7_UpsThenDownsRestoreTyped ==
  (run.phase = "downs" /\ run.downs = run.ups /\ run.browse0 = -1)
    => Text(line, linepos) = run.line0

\* Two ups through two entries and two downs have come back to a typed line.
C7_BackAtTypedLine ==
  /\ run.phase = "downs"
  /\ run.downs = run.ups
  /\ run.ups = 2
  /\ run.browse0 = -1
  /\ run.line0 # <<>>
  /\ history_strlens_topvalid >= 1
  /\ cur_hist_browse_idx = -1

\* The call has rung the bell and changed neither the line nor the position
\* in the history.
Refused ==
  /\ out' = <<MEVCLI_BELL_CHAR>>
  /\ line' = line
  /\ linepos' = linepos
  /\ cursorpos' = cursorpos
  /\ cur_hist_browse_idx' = cur_hist_browse_idx

\* The call has put l in the line with the cursor at its end.
Loaded(l) ==
  /\ Text(line', linepos') = l
  /\ linepos' = Len(l)
  /\ cursorpos' = Len(l)

\* C8: once lines have been submitted, the first browse-up loads the line
\* submitted last with cursorpos = linepos = its length and each further one
\* the next older line held; a browse-down steps back to the newer line and
\* at last restores the line that was being typed; a browse-up at the oldest
\* line held (or with nothing held) and a browse-down while not browsing ring
\* the bell and change nothing.
C8_BrowseWalksSubmitted ==
  [][/\ last' = "up" =>
          IF browse_pos + 1 < Len(submitted)
          THEN /\ Loaded(submitted[browse_pos + 2])
               /\ browse_pos = -1 =>
                    Text(backup_line', backup_linepos') = Text(line, linepos)
          ELSE Refused
     /\ last' = "down" =>
          IF browse_pos = -1 THEN Refused
          ELSE IF browse_pos = 0
          THEN Loaded(Text(backup_line, backup_linepos))
          ELSE Loaded(submitted[browse_pos])]_vars

\* line[0..linepos) is empty or spaces only.
WhitespaceOnly == \A i \in 0..(linepos - 1) : line[i] = SP

\* C9: the submit of an empty or blank line emits CR LF and the prompt and
\* nothing else (no help), leaves history, history_strlens and
\* history_strlens_topvalid as they were and calls no handler.
C9_BlankSubmitTouchesNothing ==
  [][(last' = "submit" /\ WhitespaceOnly) =>
       /\ out' = <<CR, LF>> \o MEVCLI_PROMPT
       /\ calls' = <<>>
       /\ history' = history
       /\ history_strlens' = history_strlens
       /\ history_strlens_topvalid' = history_strlens_topvalid]_vars

\* A line of spaces has been submitted over a history that holds a line.
C9_BlankAfterCommand ==
  /\ out = <<CR, LF>> \o MEVCLI_PROMPT
  /\ calls = <<>>
  /\ linepos = 0
  /\ line[0] = SP
  /\ history_strlens_topvalid >= 0

\* The words of line[i..linepos): its maximal runs of bytes above ' ', word
\* being the run that ends before i.
RECURSIVE Words(_, _)
Words(i, word) ==
  IF i >= linepos THEN (IF word = <<>> THEN <<>> ELSE <<word>>)
  ELSE IF line[i] <= SP
  THEN (IF word = <<>> THEN <<>> ELSE <<word>>) \o Words(i + 1, <<>>)
  ELSE Words(i + 1, Append(word, line[i]))

FoldCase(ch) == IF ch \in 65..90 THEN ch + 32 ELSE ch

\* The table entries whose name is the word w but for the case of letters.
Matching(w) ==
  {e \in DOMAIN commands :
     /\ Len(w) = Len(commands[e].name)
     /\ \A k \in 1..Len(w) : FoldCase(w[k]) = FoldCase(commands[e].name[k])}

\* The number of arguments collected from the words ws of a line.
ArgcOf(ws) ==
  IF Len(ws) - 1 > MEVCLI_MAX_ARGS THEN MEVCLI_MAX_ARGS ELSE Len(ws) - 1

\* o is the output of a submit that printed the help under the banner why.
HelpWith(o, why) ==
  /\ Len(o) >= 4 + Len(why)
  /\ SubSeq(o, 1, 4 + Len(why)) = <<CR, LF, CR, LF>> \o why

\* C10: on the submit of a line that is not blank a handler is called, once,
\* exactly when the command word matches a table entry whose nargs is -1 or
\* the number of arguments collected; with no matching entry the help is
\* printed under "Unknown command", with a matching entry and another number
\* of arguments under "Command args are incorrect", and no handler is called.
C10_HandlerIffMatchAndArgs ==
  [][(last' = "submit" /\ Words(0, <<>>) # <<>>) =>
       LET ws == Words(0, <<>>)
           m == Matching(ws[1])
       IN IF m = {}
          THEN calls' = <<>> /\ HelpWith(out', WhyUnknown)
          ELSE LET e == CHOOSE i \in m : \A j \in m : i <= j
                   n == commands[e].nargs
               IN IF n = -1 \/ n = ArgcOf(ws)
                  THEN /\ Len(calls') = 1
                       /\ calls'[1].cmd = e
                       /\ calls'[1].argc = ArgcOf(ws)
                       /\ out' = <<CR, LF>> \o MEVCLI_PROMPT
                  ELSE calls' = <<>> /\ HelpWith(out', WhyArgs)]_vars

\* The handler of the entry that takes one argument has been called with one.
C10_CalledWithItsArgCount ==
  /\ Len(calls) = 1
  /\ commands[calls[1].cmd].nargs = 1
  /\ calls[1].argc = 1
  /\ Len(calls[1].argv[1]) = 1

\* The indices in line[i..linepos) at which a word starts; inword tells that
\* line[i - 1] belongs to a word.
RECURSIVE WordStarts(_, _)
WordStarts(i, inword) ==
  IF i >= linepos THEN <<>>
  ELSE IF line[i] <= SP THEN WordStarts(i + 1, FALSE)
  ELSE IF inword THEN WordStarts(i + 1, TRUE)
  ELSE <<i>> \o WordStarts(i + 1, TRUE)

FirstSubmitOf(l) ==
  /\ last' = "submit"
  /\ history_strlens_topvalid = -1
  /\ cursorpos = linepos
  /\ Text(line, linepos) = l

\* The two-word line of the scenario, in the bytes of this model: its first
\* word, "aaa", is the name of no command, as "hi" is none of echo and add.
TwoWordLine == <<97, 97, 97, SP, 97>>

\* C12: fed to a fresh context, the two-word line has the handler of the
\* entry with nargs = -1 (echo; entry 0 here) called with the words of the
\* line as its arguments, and then the prompt is emitted again.
C12_TwoWordsReachFirstHandler ==
  [][FirstSubmitOf(TwoWordLine) =>
       /\ Len(calls') = 1
       /\ calls'[1].cmd = 0
       /\ calls'[1].argv[1] = <<97, 97, 97>>
       /\ EndsWithPrompt(out')]_vars

\* C12 as the code has it: the first word of the line is the command word; it
\* names no command, so no handler is called, the help is printed under
\* "Unknown command" and then the prompt is emitted again.
C12_TwoWordsUnknownCommand ==
  [][FirstSubmitOf(TwoWordLine) =>
       /\ calls' = <<>>
       /\ HelpWith(out', WhyUnknown)
       /\ EndsWithPrompt(out')]_vars

\* The two-word line has been submitted as the first line of the session and
\* answered with the help.
C12_TwoWordLineAnswered ==
  /\ last = "submit"
  /\ history_strlens_topvalid = 0
  /\ history_strlens[0] = Len(TwoWordLine) + 1
  /\ Text(history, Len(TwoWordLine)) = TwoWordLine
  /\ calls = <<>>
  /\ HelpWith(out, WhyUnknown)
  /\ linepos = 0

\* C13: the command word matches a table entry exactly when both have the
\* same length and the same bytes once A-Z are folded to a-z (a prefix is no
\* match); of several matching entries the one with the lowest index is
\* dispatched.
C13_ExactFoldedLowestMatch ==
  [][(last' = "submit" /\ Words(0, <<>>) # <<>>) =>
       LET m == Matching(Words(0, <<>>)[1])
       IN /\ (m = {}) <=> HelpWith(out', WhyUnknown)
          /\ calls' # <<>> =>
               /\ calls'[1].cmd \in m
               /\ \A j \in m : calls'[1].cmd <= j
          /\ HelpWith(out', WhyArgs) =>
               \E e \in m : /\ \A j \in m : e <= j
                            /\ commands[e].nargs # -1]_vars

\* "a a" has been submitted first: the word matches entries 0 ("A") and 2
\* ("a"), and entry 0 was called, with the argument entry 2 would refuse.
C13_FoldedEntryShadowsExact ==
  /\ Len(calls) = 1
  /\ calls[1].cmd = 0
  /\ calls[1].argc = 1
  /\ Matching(<<97>>) = {0, 2}
  /\ history_strlens_topvalid = 0
  /\ Text(history, 3) = <<97, SP, 97>>

\* The bytes of history slot i without their terminator, for a pool hist with
\* the slot lengths lens.
EntryText(hist, lens, i) ==
  [k \in 1..(lens[i] - 1) |-> hist[SumLens(lens, i - 1) + k - 1]]

\* The bytes of line[i..linepos) from the first byte above ' ' on: the
\* submitted line from the start of its command.
RECURSIVE FromCommand(_)
FromCommand(i) ==
  IF i >= linepos THEN <<>>
  ELSE IF line[i] <= SP THEN FromCommand(i + 1)
  ELSE [k \in 1..(linepos - i) |-> line[i + k - 1]]

\* The submit has written l and a terminator to history slot 0 and the
\* number of those bytes to history_strlens[0].
InSlotZero(l) ==
  /\ history_strlens'[0] = Len(l) + 1
  /\ Text(history', Len(l)) = l
  /\ history'[Len(l)] = NUL

\* After the submit slots 0 and 1 hold the same bytes.
SlotsZeroAndOneAlike ==
  /\ history_strlens_topvalid' >= 1
  /\ history_strlens'[1] = history_strlens'[0]
  /\ EntryText(history', history_strlens', 1)
       = EntryText(history', history_strlens', 0)

\* C14: the submit of a line with a byte that is no white space writes to
\* history slot 0 the bytes of the line from its first such byte to linepos
\* (command word and arguments) followed by a terminator, and their number
\* plus one to history_strlens[0]; when the line is the one submitted before
\* it, slots 0 and 1 hold the same bytes afterwards.
C14_HistoryHoldsTrimmedLine ==
  [][(last' = "submit" /\ FromCommand(0) # <<>>) =>
       /\ InSlotZero(FromCommand(0))
       /\ (/\ history_strlens_topvalid >= 0
           /\ EntryText(history, history_strlens, 0) = FromCommand(0))
            => SlotsZeroAndOneAlike]_vars

\* C14, the second copy being promised only when the pool has room for the
\* line twice: 2 * (its length + 1) <= MEVCLI_HISTORY_BUFLEN.
C14_HistoryHoldsTrimmedLineTwiceIfRoom ==
  [][(last' = "submit" /\ FromCommand(0) # <<>>) =>
       /\ InSlotZero(FromCommand(0))
       /\ (/\ history_strlens_topvalid >= 0
           /\ EntryText(history, history_strlens, 0) = FromCommand(0)
           /\ 2 * (Len(FromCommand(0)) + 1) <= MEVCLI_HISTORY_BUFLEN)
            => SlotsZeroAndOneAlike]_vars

\* "a a" has been submitted twice in a row: slots 0 and 1 hold it, argument
\* included.
C14_SameLineInBothSlots ==
  /\ last = "submit"
  /\ history_strlens_topvalid = 1
  /\ history_strlens[0] = 4
  /\ history_strlens[1] = 4
  /\ Text(history, 8) = <<97, SP, 97, NUL, 97, SP, 97, NUL>>

\* The number of the entries in slots 0..history_strlens_topvalid that a new
\* string of n bytes leaves room for: the longest newest-first run of them
\* that fits in the pool with the string and in the slots with its entry.
RECURSIVE Kept(_, _)
Kept(n, k) ==
  IF /\ k <= history_strlens_topvalid
     /\ k + 1 < MEVCLI_HISTORY_MAX_STRS
     /\ n + SumLens(history_strlens, k) <= MEVCLI_HISTORY_BUFLEN
  THEN Kept(n, k + 1)
  ELSE k

\* C15: the append of a string of n bytes keeps, each moved from its slot to
\* the next with its bytes unchanged, exactly the longest newest-first run of
\* the entries held that fits in MEVCLI_HISTORY_BUFLEN bytes with the string
\* and in MEVCLI_HISTORY_MAX_STRS slots with its entry; what is dropped is
\* older than what is kept.
C15_AppendKeepsNewestThatFit ==
  [][(last' = "submit" /\ \E i \in 0..(linepos - 1) : line[i] > SP) =>
       LET kept == Kept(history_strlens'[0], 0)
       IN /\ history_strlens_topvalid' = kept
          /\ history_strlens_topvalid' + 1 <= MEVCLI_HISTORY_MAX_STRS
          /\ \A i \in 0..(kept - 1) :
               /\ history_strlens'[i + 1] = history_strlens[i]
               /\ EntryText(history', history_strlens', i + 1)
                    = EntryText(history, history_strlens, i)]_vars

\* C16: a printable byte fed while linepos = MEVCLI_MAX_LINE_LEN (the
\* recognizer idle) has exactly one BEL emitted and line[0..linepos), linepos
\* and cursorpos left as they were, wherever the cursor is.
C16_FullLineInsertRefused ==
  [][(linepos = MEVCLI_MAX_LINE_LEN /\ csi_fsm_state = 0 /\ Insert) =>
       /\ out' = <<MEVCLI_BELL_CHAR>>
       /\ linepos' = linepos
       /\ cursorpos' = cursorpos
       /\ Text(line', linepos') = Text(line, linepos)]_vars

\* A byte has been refused by a full line with the cursor inside it.
C16_RefusedInsideFullLine ==
  /\ out = <<MEVCLI_BELL_CHAR>>
  /\ undo.phase = "fed"
  /\ undo.csi0 = 0
  /\ linepos = MEVCLI_MAX_LINE_LEN
  /\ 0 < cursorpos
  /\ cursorpos < linepos

\* C17: from any reachable state, a printable byte and then DEL bring
\* line[0..linepos), linepos and cursorpos back to what they were before the
\* two bytes.
C17_InsertThenDeleteRestores ==
  undo.phase = "undone" =>
    /\ Text(line, linepos) = undo.line0
    /\ cursorpos = undo.cursorpos0

\* C17, from the states in which the recognizer is idle and the line is not
\* full.
C17_InsertThenDeleteRestoresRoom ==
  (/\ undo.phase = "undone"
   /\ undo.csi0 = 0
   /\ Len(undo.line0) < MEVCLI_MAX_LINE_LEN) =>
    /\ Text(line, linepos) = undo.line0
    /\ cursorpos = undo.cursorpos0

\* A byte has been inserted inside a line of two words and deleted again.
C17_UndoneInsideLine ==
  /\ undo.phase = "undone"
  /\ undo.csi0 = 0
  /\ 0 < undo.cursorpos0
  /\ undo.cursorpos0 < Len(undo.line0)
  /\ Len(undo.line0) < MEVCLI_MAX_LINE_LEN
  /\ \E i \in 1..Len(undo.line0) : undo.line0[i] = SP
  /\ \E i \in 1..Len(undo.line0) : undo.line0[i] # SP

\* Everything of the context but the recognizer state and the output is as it
\* was.
OnlyCsiStateChanged ==
  /\ prompt_len' = prompt_len
  /\ linepos' = linepos
  /\ cursorpos' = cursorpos
  /\ line' = line
  /\ args' = args
  /\ history' = history
  /\ backup_line' = backup_line
  /\ backup_linepos' = backup_linepos
  /\ history_strlens' = history_strlens
  /\ history_strlens_topvalid' = history_strlens_topvalid
  /\ cur_hist_browse_idx' = cur_hist_browse_idx

\* C18: csi_fsm_state stays in {0, 1, 2}; ESC in state 0 leads to 1, '[' in
\* state 1 to 2, any other byte in state 1 and any byte in state 2 to 0; a
\* byte met in state 1 or 2 is consumed (the line keeps its bytes unless the
\* byte ends a browse sequence, nothing is submitted); a byte with no action
\* in the table changes csi_fsm_state alone and emits nothing.
C18_RecognizerFollowsTable ==
  [][/\ csi_fsm_state' \in {0, 1, 2}
     /\ csi_fsm_state = 0 =>
          /\ csi_fsm_state' \in {0, 1}
          /\ csi_fsm_state' = 1 => (out' = <<>> /\ OnlyCsiStateChanged)
          /\ EscStart => csi_fsm_state' = 1
     /\ csi_fsm_state = 1 =>
          /\ csi_fsm_state' \in {0, 2}
          /\ EscBracket <=> csi_fsm_state' = 2
          /\ csi_fsm_state' = 2 => (out' = <<>> /\ OnlyCsiStateChanged)
          /\ line' = line /\ linepos' = linepos
          /\ calls' = <<>> /\ history' = history
          /\ EscUnknown => (out' = <<>> /\ OnlyCsiStateChanged)
     /\ csi_fsm_state = 2 =>
          /\ csi_fsm_state' = 0
          /\ last' = "other" => (line' = line /\ linepos' = linepos)
          /\ calls' = <<>> /\ history' = history
          /\ CsiUnknown => (out' = <<>> /\ OnlyCsiStateChanged)]_vars

\* ESC [ DEL has been fed with the cursor inside a line: the DEL was consumed
\* by the recognizer and the line is as it was before the '['.
C18_DelConsumedAfterCsi ==
  /\ undo.phase = "undone"
  /\ undo.csi0 = 1
  /\ csi_fsm_state = 0
  /\ out = <<>>
  /\ Text(line, linepos) = undo.line0
  /\ 0 < cursorpos
  /\ cursorpos < linepos

\* The decimal digits of n, most significant first, as ASCII bytes.
RECURSIVE Decimal(_)
Decimal(n) ==
  IF n < 10 THEN <<48 + n>> ELSE Append(Decimal(n \div 10), 48 + (n % 10))

\* C19: mevcli_ansi_cursorpos(x) emits CR alone for x = 0, ESC [ and the
\* decimal digits of x + 1 without leading zeros and G for 1 <= x <= 999, and
\* nothing for x > 999.
C19_CursorposEmitsColumn ==
  last = "column" =>
    out = IF prompt_len = 0 THEN <<CR>>
          ELSE IF prompt_len > 999 THEN <<>>
          ELSE <<ESC, 91>> \o Decimal(prompt_len + 1) \o <<71>>

\* C20: a cursor, cut or delete key that has nothing to do where the cursor
\* is (left, start, word-left, DEL, ^U, ^W at cursorpos = 0; right, end,
\* word-right, ^K at cursorpos = linepos) leaves the state as it was and
\* emits no byte.
C20_NoOpEmitsNothing ==
  [][(\/ /\ cursorpos = 0
         /\ \/ csi_fsm_state = 0
               /\ (CursorStart \/ Delete \/ CutStart \/ CutWord)
            \/ csi_fsm_state = 1 /\ EscWordLeft
            \/ csi_fsm_state = 2 /\ CsiLeft
      \/ /\ cursorpos = linepos
         /\ \/ csi_fsm_state = 0 /\ (CursorEnd \/ CutEnd)
            \/ csi_fsm_state = 1 /\ EscWordRight
            \/ csi_fsm_state = 2 /\ CsiRight)
       => (out' = <<>> /\ OnlyCsiStateChanged)]_vars

\* C21: after every mevcli_input_char call history_strlens_topvalid is the
\* highest index of history_strlens that holds a length other than 0, or -1
\* when every length is 0: no length other than 0 is left above it, also
\* after an append that drops more than one old entry.
C21_TopValidIsHighestLength ==
  /\ history_strlens_topvalid \in -1..(MEVCLI_HISTORY_MAX_STRS - 1)
  /\ history_strlens_topvalid >= 0
       => history_strlens[history_strlens_topvalid] # 0
  /\ \A i \in 0..(MEVCLI_HISTORY_MAX_STRS - 1) :
       i > history_strlens_topvalid => history_strlens[i] = 0

\* The index at which the nearest word left of the cursor starts, the white
\* space directly left of the cursor skipped; 0 when nothing but white space
\* lies left of the cursor.
WordLeft ==
  LET wordend == CHOOSE e \in 0..cursorpos :
                   /\ e = 0 \/ line[e - 1] > SP
                   /\ \A j \in (e + 1)..cursorpos : line[j - 1] <= SP
  IN IF wordend = 0 THEN 0
     ELSE CHOOSE s \in 0..(wordend - 1) :
            /\ s = 0 \/ line[s - 1] <= SP
            /\ \A j \in s..(wordend - 1) : line[j] > SP

\* The call has cut line[p..cursorpos): what was left and right of it is the
\* line now, and the cursor is at p.
CutDownTo(p) ==
  /\ cursorpos' = p
  /\ linepos' = linepos - (cursorpos - p)
  /\ Text(line', linepos')
       = SubSeq(Text(line, linepos), 1, p)
           \o SubSeq(Text(line, linepos), cursorpos + 1, linepos)

\* C22: DEL with the cursor after the start of the line cuts down to
\* cursorpos - 1, ^U to 0 and ^W to the start of the word left of the cursor:
\* the line becomes old[0..p) followed by old[cursorpos..linepos), cursorpos
\* becomes p and linepos shrinks by the old cursorpos - p, with the cursor at
\* the end of the line or inside it.
C22_CutsDownToPosition ==
  [][/\ (csi_fsm_state = 0 /\ cursorpos > 0 /\ Delete)
          => CutDownTo(cursorpos - 1)
     /\ (csi_fsm_state = 0 /\ CutStart) => CutDownTo(0)
     /\ (csi_fsm_state = 0 /\ CutWord) => CutDownTo(WordLeft)]_vars

\* A cut inside the line has left "a a" with the cursor before its last byte
\* and drawn the rest of the line again.
C22_CutInsideLine ==
  /\ last = "other"
  /\ Text(line, linepos) = <<97, SP, 97>>
  /\ cursorpos = 2
  /\ out = <<ESC, 91, 53, 71, ESC, 91, 48, 75, 97, ESC, 91, 53, 71>>

\* The call has put byte b into the line at the cursor.
InsertedAtCursor(b) ==
  /\ cursorpos' = cursorpos + 1
  /\ linepos' = linepos + 1
  /\ Text(line', linepos')
       = SubSeq(Text(line, linepos), 1, cursorpos) \o <<b>>
           \o SubSeq(Text(line, linepos), cursorpos + 1, linepos)

\* C23: a printable byte fed while linepos < MEVCLI_MAX_LINE_LEN (the
\* recognizer idle) makes the line old[0..cursorpos), the byte,
\* old[cursorpos..linepos) and adds one to cursorpos and to linepos, with the
\* cursor at the end of the line or inside it.
C23_InsertsAtCursor ==
  [][\A b \in {97, SP} :
       (/\ linepos < MEVCLI_MAX_LINE_LEN
        /\ csi_fsm_state = 0
        /\ InputChar(b, b)) => InsertedAtCursor(b)]_vars

\* "aaa", the cursor moved to the start of the line, then a space: the line
\* is " aaa" and the cursor is at 1.
C23_InsertedAtLineStart ==
  /\ undo.phase = "fed"
  /\ undo.csi0 = 0
  /\ undo.line0 = <<97, 97, 97>>
  /\ undo.cursorpos0 = 0
  /\ Text(line, linepos) = <<SP, 97, 97, 97>>
  /\ cursorpos = 1

\* C24: the submit of a line that is not blank emits CR LF, appends the line
\* to the history, matches the command, calls the handler or prints the help,
\* and emits the prompt, in that order: a handler that runs finds the line in
\* history slot 0 and CR LF as the only output so far, the line is in the
\* history also when the help is printed for an unknown command or a wrong
\* number of arguments, and the prompt ends the output.
C24_SubmitStepsInOrder ==
  [][(last' = "submit" /\ FromCommand(0) # <<>>) =>
       /\ Len(out') >= 2
       /\ SubSeq(out', 1, 2) = <<CR, LF>>
       /\ EndsWithPrompt(out')
       /\ InSlotZero(FromCommand(0))
       /\ \A k \in 1..Len(calls') :
            /\ calls'[k].out = <<CR, LF>>
            /\ calls'[k].history = history'
            /\ calls'[k].history_strlens = history_strlens'
       /\ IF calls' # <<>>
          THEN out' = <<CR, LF>> \o MEVCLI_PROMPT
          ELSE HelpWith(out', WhyUnknown) \/ HelpWith(out', WhyArgs)]_vars

\* The handler called for "a a" found the line in history slot 0 and no
\* prompt yet; the prompt came after it.
C24_HandlerSawLineInHistory ==
  /\ last = "submit"
  /\ Len(calls) = 1
  /\ calls[1].history_strlens[0] = 4
  /\ Text(calls[1].history, 4) = <<97, SP, 97, NUL>>
  /\ calls[1].out = <<CR, LF>>
  /\ out = <<CR, LF>> \o MEVCLI_PROMPT

\* The bytes of the history pool that belong to slots
\* 0..history_strlens_topvalid.
ValidPool(hist, lens, top) == Text(hist, SumLens(lens, top))

\* The lengths of slots 0..history_strlens_topvalid.
ValidLens(lens, top) == [i \in 0..top |-> lens[i]]

\* C26: the bytes of the valid history slots, their lengths and
\* history_strlens_topvalid change only on the submit (CR) of a line that
\* holds a byte that is no white space; every other byte fed (inserts,
\* deletes, cuts, cursor moves, escape sequences, browse-up and browse-down)
\* leaves them as they were.
C26_OnlySubmitChangesHistory ==
  [][~(last' = "submit" /\ FromCommand(0) # <<>>) =>
       /\ history_strlens_topvalid' = history_strlens_topvalid
       /\ ValidLens(history_strlens', history_strlens_topvalid')
            = ValidLens(history_strlens, history_strlens_topvalid)
       /\ ValidPool(history', history_strlens', history_strlens_topvalid')
            = ValidPool(history, history_strlens, history_strlens_topvalid)]_vars

\* A second browse-up has been made from a typed line over a history of two
\* entries.
C26_BrowsedOverTwoEntries ==
  /\ last = "up"
  /\ cur_hist_browse_idx = 1
  /\ history_strlens_topvalid = 1
  /\ backup_linepos > 0
  /\ history_strlens[0] # history_strlens[1]

\* A terminal: the cells of its current row (blank cells at the end of the
\* row left out), the column of its cursor counted from 0, and how far into
\* an escape sequence it has read (0: not at all, 1: ESC, 2: ESC [ and the
\* digits of num).
TermRow(row, col) == [row |-> row, col |-> col, esc |-> 0, num |-> 0]

\* row without the blank cells at its end.
RECURSIVE StripBlanks(_)
StripBlanks(row) ==
  IF row # <<>> /\ row[Len(row)] = SP
  THEN StripBlanks(SubSeq(row, 1, Len(row) - 1))
  ELSE row

\* row with byte b in the cell of column col.
PutCell(row, col, b) ==
  [k \in 1..(IF Len(row) > col + 1 THEN Len(row) ELSE col + 1) |->
     IF k = col + 1 THEN b ELSE IF k <= Len(row) THEN row[k] ELSE SP]

\* The terminal t after byte b: a printable byte is shown at the cursor,
\* which moves right; CR, LF, BS and TAB move the cursor, LF to a new row;
\* ESC [ n G sets the column to n - 1 and ESC [ 0 K blanks the row from the
\* cursor on; BEL, NUL and every other byte leave the display alone.
TermByte(t, b) ==
  CASE t.esc = 1 ->
         IF b = 91 THEN [t EXCEPT !.esc = 2, !.num = 0]
         ELSE [t EXCEPT !.esc = 0]
    [] t.esc = 2 /\ b \in 48..57 -> [t EXCEPT !.num = 10 * @ + (b - 48)]
    [] t.esc = 2 /\ b = 71 ->
         [t EXCEPT !.esc = 0, !.col = IF t.num > 0 THEN t.num - 1 ELSE 0]
    [] t.esc = 2 /\ b = 75 ->
         [t EXCEPT !.esc = 0,
                   !.row = IF t.num = 0 /\ t.col < Len(@)
                           THEN SubSeq(@, 1, t.col) ELSE @]
    [] t.esc = 2 /\ b \notin (48..57) \cup {71, 75} -> [t EXCEPT !.esc = 0]
    [] t.esc = 0 /\ b = ESC -> [t EXCEPT !.esc = 1]
    [] t.esc = 0 /\ b = CR -> [t EXCEPT !.col = 0]
    [] t.esc = 0 /\ b = LF -> [t EXCEPT !.row = <<>>]
    [] t.esc = 0 /\ b = 8 -> [t EXCEPT !.col = IF @ > 0 THEN @ - 1 ELSE 0]
    [] t.esc = 0 /\ b = TAB -> [t EXCEPT !.col = 8 * ((@ \div 8) + 1)]
    [] t.esc = 0 /\ b \in 32..126 ->
         [t EXCEPT !.row = PutCell(@, t.col, b), !.col = @ + 1]
    [] OTHER -> t

\* The terminal t after the bytes o[lo..hi], read in their order.  The first
\* half is read to its end before the second half is started.
RECURSIVE TermFeed(_, _, _, _)
RECURSIVE TermFeedOn(_, _, _, _)
TermFeedOn(t, o, lo, hi) ==
  IF t.esc \in 0..2 THEN TermFeed(t, o, lo, hi) ELSE t

TermFeed(t, o, lo, hi) ==
  IF lo > hi THEN t
  ELSE IF lo = hi THEN TermByte(t, o[lo])
  ELSE TermFeedOn(TermFeed(t, o, lo, (lo + hi) \div 2), o,
                  ((lo + hi) \div 2) + 1, hi)

\* The terminal t shows the prompt followed by l[0..lp) and nothing else in
\* its row, and its cursor is at column pl + cp.
TermShows(t, l, lp, pl, cp) ==
  /\ t.esc = 0
  /\ StripBlanks(t.row) = StripBlanks(MEVCLI_PROMPT \o Text(l, lp))
  /\ t.col = pl + cp

\* C25: a terminal that reads the emitted bytes shows, after mevcli_init and
\* after every mevcli_input_char call, the prompt followed by exactly
\* line[0..linepos) in its current row, with its cursor at column
\* prompt_len + cursorpos.  (The rows of the model are of 7 columns at most.)
C25_TerminalShowsLine ==
  /\ TermShows(TermFeed(TermRow(<<>>, 0), out, 1, Len(out)),
               line, linepos, prompt_len, cursorpos)
  /\ [][TermShows(
          TermFeed(TermRow(StripBlanks(MEVCLI_PROMPT \o Text(line, linepos)),
                           prompt_len + cursorpos),
                   out', 1, Len(out')),
          line', linepos', prompt_len', cursorpos')]_vars

=============================================================================
